---- MODULE Spec2Model ----
(***************************************************************************)
(* Model of SALib/sample/morris.py: the Sample base class, the Morris      *)
(* sampler object (constructor pipeline, compute_groups, create_sample,   *)
(* create_sample_with_groups, debug) and the command-line entry point.     *)
(*                                                                         *)
(* Conventions.  Python's None is the empty sequence and a present value x *)
(* is <<x>>.  Positions are 1-based here and 0-based in the source.        *)
(* A numpy array lives in the store `arrays` under an identifier, so that  *)
(* aliasing (returning self.output_sample) and copying (.copy()) differ.   *)
(* An array is abstracted to its shape and its first row; grid values are  *)
(* kept as integer numerators over (num_levels - 1).                       *)
(***************************************************************************)
EXTENDS Integers, Sequences, FiniteSets

VARIABLES pc, args, np_seed, rd_seed,
          parameter_names, bounds, num_vars, samples, num_levels, grid_jump,
          groups, optimal_trajectories, output_sample,
          gf, raised, calls, arrays, ret, saved, stdout

vars == <<pc, args, np_seed, rd_seed,
          parameter_names, bounds, num_vars, samples, num_levels, grid_jump,
          groups, optimal_trajectories, output_sample,
          gf, raised, calls, arrays, ret, saved, stdout>>

-----------------------------------------------------------------------------
(* Bounds of the model *)

MaxSamples == 12
MaxRows == 2
MaxMembers == 2
ArraySlots == 2
PipelineRows == 1
PipelineMembers == 2

(* Program constants *)

MaxOptimal == 10
MinOptimal == 1
DefaultPrecision == 8

-----------------------------------------------------------------------------
(* Values *)

None == <<>>
Some(x) == <<x>>
IsNone(o) == o = <<>>
Val(o) == o[1]

NamePool == {"x1", "x2"}
GroupNamePool == {"g1", "g2"}
BoundPairs == {<<0, 1>>, <<1, 3>>}
Seeds == {7, 42}

\* num_levels must be even and at least 2, grid_jump positive and below it.
GridConfigs == {[levels |-> 2, grid_jump |-> 1]}

SeqsUpTo(S, n) == UNION {[1..k -> S] : k \in 0..n}

Range(s) == {s[i] : i \in 1..Len(s)}

Injective(s) == \A i, j \in 1..Len(s) : s[i] = s[j] => i = j

\* read_param_file: one row per factor (name, lower, upper); names identify
\* the factors, the row order is the factor order.
ParamFiles ==
    UNION {{[names |-> n, bounds |-> b, num_vars |-> Len(n)] :
               b \in [1..Len(n) -> BoundPairs]} :
           n \in {s \in SeqsUpTo(NamePool, Cardinality(NamePool)) :
                     Len(s) >= 1 /\ Injective(s)}}

\* read_group_file: gf['groups'] is a list of [group_name, [member names]].
GroupRows(members) ==
    {<<g, m>> : g \in GroupNamePool, m \in SeqsUpTo(NamePool, members)}

GroupFiles == SeqsUpTo(GroupRows(MaxMembers), MaxRows)

\* The group files the whole pipeline is run on.
PipelineGroupFiles == SeqsUpTo(GroupRows(PipelineMembers), PipelineRows)

ErrNames == "The parameter names from the group file do not match those from the parameter file"
ErrFewer == "The number of optimal trajectories should be less than the number of samples."
ErrTooLarge == "Running optimal trajectories greater than values of 10 will take a long time."
ErrTooFew == "The number of optimal trajectories must be set to 2 or more."
ErrOptimizer == "find_optimum_trajectories: index out of range"

-----------------------------------------------------------------------------
(* Morris.flatten and Morris.compute_groups *)

RECURSIVE flatten(_)
\* Member names are strings, which flatten does not descend into: the result
\* is the concatenation of the member lists in file order.
flatten(l) == IF l = <<>> THEN <<>> ELSE Head(l) \o flatten(Tail(l))

\* dict([(x, i) for (i, x) in enumerate(actual_names)])[param]: a later
\* position overwrites an earlier one.
indices(actual_names, param) ==
    CHOOSE i \in 1..Len(actual_names) :
        /\ actual_names[i] = param
        /\ \A j \in (i + 1)..Len(actual_names) : actual_names[j] # param

zeros(r, c) == [i \in 1..r |-> [j \in 1..c |-> 0]]

\* Variant: only the first member of a group is entered.
FillGroup_first_member(output, actual_names, group, row) ==
    IF group = <<>> THEN output
    ELSE [output EXCEPT ![indices(actual_names, Head(group))][row] = 1]

RECURSIVE FillGroup(_, _, _, _)
\* for param in group: output[indices[param], row] = 1
FillGroup(output, actual_names, group, row) ==
    IF group = <<>> THEN output
    ELSE FillGroup([output EXCEPT ![indices(actual_names, Head(group))][row] = 1],
                   actual_names, Tail(group), row)

RECURSIVE FillRows(_, _, _, _)
\* for row, group in enumerate(param_names_from_gf)
FillRows(output, actual_names, param_names_from_gf, row) ==
    IF row > Len(param_names_from_gf) THEN output
    ELSE FillRows(FillGroup(output, actual_names, param_names_from_gf[row], row),
                  actual_names, param_names_from_gf, row + 1)

\* Variant: the name check demands that the group file lists exactly the
\* parameter names, not only known ones.
compute_groups_exact_match(actual_names, nvars, data) ==
    LET group_names == [i \in 1..Len(data) |-> data[i][1]]
        param_names_from_gf == [i \in 1..Len(data) |-> data[i][2]]
        param_names_to_check == flatten(param_names_from_gf)
    IN  IF Range(param_names_to_check) # Range(actual_names)
        THEN [raised |-> ErrNames,
              printed |-> <<actual_names, param_names_to_check>>,
              value |-> None]
        ELSE [raised |-> "",
              printed |-> <<>>,
              value |-> Some(FillRows(zeros(nvars, Len(group_names)),
                                      actual_names, param_names_from_gf, 1))]

compute_groups(actual_names, nvars, data) ==
    LET group_names == [i \in 1..Len(data) |-> data[i][1]]
        param_names_from_gf == [i \in 1..Len(data) |-> data[i][2]]
        param_names_to_check == flatten(param_names_from_gf)
    IN  IF ~ (\A p \in 1..Len(param_names_to_check) :
                 param_names_to_check[p] \in Range(actual_names))
        THEN [raised |-> ErrNames,
              printed |-> <<actual_names, param_names_to_check>>,
              value |-> None]
        ELSE [raised |-> "",
              printed |-> <<>>,
              value |-> Some(FillRows(zeros(nvars, Len(group_names)),
                                      actual_names, param_names_from_gf, 1))]

-----------------------------------------------------------------------------
(* Arrays and the collaborators outside morris.py *)

GridRows(cols, levels) == [1..cols -> 0..(levels - 1)]

NumGroups(G) == Len(G[1])

\* morris_oat.sample(N, parameter_file, num_levels, grid_jump): N trajectories
\* of num_vars + 1 points each; `first` is the randomly drawn first point.
morris_oat_sample(N, nvars, first) ==
    [rows |-> N * (nvars + 1), cols |-> nvars, first |-> first]

\* morris_groups.sample(N, G, num_levels, grid_jump): N trajectories of
\* num_groups + 1 points each, over the num_vars factor columns.
morris_groups_sample(N, G, first) ==
    [rows |-> N * (NumGroups(G) + 1), cols |-> Len(G), first |-> first]

\* find_optimum_trajectories(input_sample, N, num_params, k_choices) reads the
\* input as N blocks of num_params + 1 rows and stacks the k_choices chosen.
OptimizerFits(input, N, num_params) == input.rows = N * (num_params + 1)

find_optimum_trajectories(input, N, num_params, k_choices, first) ==
    [rows |-> k_choices * (num_params + 1), cols |-> input.cols, first |-> first]

\* scale_samples(params, bounds) rescales column j in place to [low_j, high_j].
Scale(a, bnds, levels) ==
    [a EXCEPT !.first = [j \in 1..a.cols |->
        a.first[j] * (bnds[j][2] - bnds[j][1]) + bnds[j][1] * (levels - 1)]]

scale_samples(store, id, bnds, levels) ==
    [store EXCEPT ![id] = Some(Scale(Val(@), bnds, levels))]

FreshId(live) == CHOOSE i \in 1..ArraySlots : i \notin live

\* Variant: no copy is taken, the same array object is handed on.
np_copy_alias(store, id) == [store |-> store, id |-> id]

\* ndarray.copy(): a new array object holding the same values.
np_copy(store, id) ==
    LET new == FreshId({id})
    IN  [store |-> [store EXCEPT ![new] = store[id]], id |-> new]

EmptyStore == [i \in 1..ArraySlots |-> None]

NoRet == [kind |-> "none", id |-> 0]

Deref(o) == Val(arrays[Val(o)])

\* Outcomes of find_optimum_trajectories.  When the block size it is told does
\* not match the input, its row indexing runs past the input: it may raise or
\* return a matrix built from whatever rows it found.
OptimizerOutcomes(input, N, num_params, k_choices, levels) ==
    {[raised |-> "",
      result |-> Some(find_optimum_trajectories(input, N, num_params, k_choices, f))] :
        f \in GridRows(input.cols, levels)}
    \cup (IF OptimizerFits(input, N, num_params) THEN {}
          ELSE {[raised |-> ErrOptimizer, result |-> None]})

Collect(store, live) == [i \in DOMAIN store |-> IF i \in live THEN store[i] ELSE None]

\* What the call log keeps of an array argument or result: which object it
\* is and its shape.
Ref(store, id) == [id |-> id, rows |-> Val(store[id]).rows, cols |-> Val(store[id]).cols]

SamplerCall(fn, N, G, levels, jump, result) ==
    [fn |-> fn, input |-> None, N |-> N, groups |-> G, num_levels |-> levels,
     grid_jump |-> jump, num_params |-> 0, k_choices |-> 0, result |-> Some(result)]

OptimizerCall(input, N, num_params, k_choices, result) ==
    [fn |-> "morris_optimal.find_optimum_trajectories", input |-> Some(input),
     N |-> N, groups |-> None, num_levels |-> 0, grid_jump |-> 0,
     num_params |-> num_params, k_choices |-> k_choices, result |-> result]

-----------------------------------------------------------------------------
(* The command-line entry point and Morris.__init__ *)

\* Variant: `group_file is not None` in place of the truth test.
Truthy_not_none(o) == ~ IsNone(o)

Truthy(o) == ~ IsNone(o) /\ Val(o) # ""

ArgSets ==
    {[samples |-> n, k_optimal |-> k, group |-> g, seed |-> s,
      levels |-> c.levels, grid_jump |-> c.grid_jump] :
        n \in 1..MaxSamples,
        k \in {None} \cup {Some(m) : m \in (-1)..MaxSamples},
        g \in {None, Some(""), Some("groups.txt")},
        s \in Seeds,
        c \in GridConfigs}

Blank ==
    /\ np_seed = <<>> /\ rd_seed = <<>>
    /\ samples = 0 /\ num_levels = 0 /\ grid_jump = 0
    /\ groups = None /\ optimal_trajectories = None /\ output_sample = None
    /\ raised = "" /\ calls = <<>> /\ arrays = EmptyStore /\ ret = NoRet
    /\ saved = None /\ stdout = <<>>

Init ==
    /\ pc = "main"
    /\ args \in ArgSets
    /\ parameter_names = <<>> /\ bounds = <<>> /\ num_vars = 0
    /\ gf = <<>>
    /\ Blank

\* np.random.seed(args.seed)
Main_seed_np ==
    /\ pc = "main"
    /\ np_seed' = Append(np_seed, args.seed)
    /\ pc' = "seed_rd"
    /\ UNCHANGED <<args, rd_seed, parameter_names, bounds, num_vars, samples,
                   num_levels, grid_jump, groups, optimal_trajectories,
                   output_sample, gf, raised, calls, arrays, ret, saved, stdout>>

\* Variant: the standard library generator is left unseeded.
Main_seed_rd_skipped ==
    /\ pc = "seed_rd"
    /\ pc' = "init"
    /\ UNCHANGED <<args, np_seed, rd_seed, parameter_names, bounds, num_vars,
                   samples, num_levels, grid_jump, groups, optimal_trajectories,
                   output_sample, gf, raised, calls, arrays, ret, saved, stdout>>

\* rd.seed(args.seed)
Main_seed_rd ==
    /\ pc = "seed_rd"
    /\ rd_seed' = Append(rd_seed, args.seed)
    /\ pc' = "init"
    /\ UNCHANGED <<args, np_seed, parameter_names, bounds, num_vars, samples,
                   num_levels, grid_jump, groups, optimal_trajectories,
                   output_sample, gf, raised, calls, arrays, ret, saved, stdout>>

\* Morris.__init__, the field assignments and read_param_file
Init_read_params ==
    /\ pc = "init"
    /\ \E pf \in ParamFiles :
          /\ num_vars' = pf.num_vars
          /\ bounds' = pf.bounds
          /\ parameter_names' = pf.names
    /\ samples' = args.samples
    /\ num_levels' = args.levels
    /\ grid_jump' = args.grid_jump
    /\ pc' = "init_groups"
    /\ UNCHANGED <<args, np_seed, rd_seed, groups, optimal_trajectories,
                   output_sample, gf, raised, calls, arrays, ret, saved, stdout>>

\* Morris.__init__: if group_file: self.groups = self.compute_groups(group_file)
Init_groups ==
    /\ pc = "init_groups"
    /\ IF Truthy(args.group)
       THEN \E data \in PipelineGroupFiles :
              LET r == compute_groups(parameter_names, num_vars, data)
              IN  /\ groups' = r.value
                  /\ raised' = r.raised
                  /\ stdout' = r.printed
                  /\ pc' = IF r.raised = "" THEN "init_check" ELSE "raised"
       ELSE /\ groups' = None
            /\ pc' = "init_check"
            /\ UNCHANGED <<raised, stdout>>
    /\ UNCHANGED <<args, np_seed, rd_seed, parameter_names, bounds, num_vars,
                   samples, num_levels, grid_jump, optimal_trajectories,
                   output_sample, gf, calls, arrays, ret, saved>>

\* Variant: `>` in place of `>=` in the comparison with samples.
check_optimal_trajectories_gt(m, N) ==
    IF ~ IsNone(m)
    THEN IF Val(m) > N THEN ErrFewer
         ELSE IF Val(m) > MaxOptimal THEN ErrTooLarge
         ELSE IF Val(m) <= MinOptimal THEN ErrTooFew
         ELSE ""
    ELSE ""

\* Variant: the range checks come before the comparison with samples.
check_optimal_trajectories_range_first(m, N) ==
    IF ~ IsNone(m)
    THEN IF Val(m) > MaxOptimal THEN ErrTooLarge
         ELSE IF Val(m) <= MinOptimal THEN ErrTooFew
         ELSE IF Val(m) >= N THEN ErrFewer
         ELSE ""
    ELSE ""

\* The precondition chain on optimal_trajectories
check_optimal_trajectories(m, N) ==
    IF ~ IsNone(m)
    THEN IF Val(m) >= N THEN ErrFewer
         ELSE IF Val(m) > MaxOptimal THEN ErrTooLarge
         ELSE IF Val(m) <= MinOptimal THEN ErrTooFew
         ELSE ""
    ELSE ""

\* Variant: the candidate pool is generated before the preconditions are
\* checked.
Init_check_optimal_after_sampling ==
    /\ pc = "init_check"
    /\ optimal_trajectories' = args.k_optimal
    /\ raised' = check_optimal_trajectories(args.k_optimal, samples)
    /\ pc' = IF raised' = "" THEN "init_sample" ELSE "raised"
    /\ \E first \in GridRows(num_vars, num_levels) :
         /\ arrays' = [arrays EXCEPT ![1] =
                          Some(morris_oat_sample(samples, num_vars, first))]
         /\ calls' = Append(calls, SamplerCall("morris_oat.sample", samples, None,
                                               num_levels, grid_jump, Ref(arrays', 1)))
    /\ UNCHANGED <<args, np_seed, rd_seed, parameter_names, bounds, num_vars,
                   samples, num_levels, grid_jump, groups, output_sample, gf,
                   ret, saved, stdout>>

Init_check_optimal ==
    /\ pc = "init_check"
    /\ optimal_trajectories' = args.k_optimal
    /\ raised' = check_optimal_trajectories(args.k_optimal, samples)
    /\ pc' = IF raised' = "" THEN "init_sample" ELSE "raised"
    /\ UNCHANGED <<args, np_seed, rd_seed, parameter_names, bounds, num_vars,
                   samples, num_levels, grid_jump, groups, output_sample, gf,
                   calls, arrays, ret, saved, stdout>>

\* Morris.__init__: if self.groups is None: self.create_sample()
create_sample ==
    /\ pc = "init_sample"
    /\ IsNone(groups)
    /\ \E first \in GridRows(num_vars, num_levels) :
         LET sample == morris_oat_sample(samples, num_vars, first)
             s1 == [arrays EXCEPT ![1] = Some(sample)]
             c1 == SamplerCall("morris_oat.sample", samples, None,
                               num_levels, grid_jump, Ref(s1, 1))
         IN  IF IsNone(optimal_trajectories)
             THEN /\ calls' = Append(calls, c1)
                  /\ arrays' = s1
                  /\ output_sample' = Some(1)
                  /\ raised' = ""
                  /\ pc' = "constructed"
             ELSE \E o \in OptimizerOutcomes(sample, samples, num_vars,
                                             Val(optimal_trajectories), num_levels) :
                  LET new == FreshId({1})
                      s2 == [s1 EXCEPT ![new] = o.result]
                  IN  /\ raised' = o.raised
                      /\ IF o.raised = ""
                         THEN /\ calls' = calls \o
                                   <<c1, OptimizerCall(Ref(s1, 1), samples, num_vars,
                                           Val(optimal_trajectories), Some(Ref(s2, new)))>>
                              /\ arrays' = Collect(s2, {new})
                              /\ output_sample' = Some(new)
                              /\ pc' = "constructed"
                         ELSE /\ calls' = calls \o
                                   <<c1, OptimizerCall(Ref(s1, 1), samples, num_vars,
                                           Val(optimal_trajectories), None)>>
                              /\ arrays' = Collect(s1, {})
                              /\ UNCHANGED output_sample
                              /\ pc' = "raised"
    /\ UNCHANGED <<args, np_seed, rd_seed, parameter_names, bounds, num_vars,
                   samples, num_levels, grid_jump, groups, optimal_trajectories,
                   gf, ret, saved, stdout>>

\* Morris.__init__: else: self.create_sample_with_groups()
create_sample_with_groups ==
    /\ pc = "init_sample"
    /\ ~ IsNone(groups)
    /\ \E first \in GridRows(num_vars, num_levels) :
         LET sample == morris_groups_sample(samples, Val(groups), first)
             s1 == [arrays EXCEPT ![1] = Some(sample)]
             c1 == SamplerCall("morris_groups.sample", samples, groups,
                               num_levels, grid_jump, Ref(s1, 1))
         IN  IF IsNone(optimal_trajectories)
             THEN /\ calls' = Append(calls, c1)
                  /\ arrays' = s1
                  /\ output_sample' = Some(1)
                  /\ raised' = ""
                  /\ pc' = "constructed"
             ELSE \E o \in OptimizerOutcomes(sample, samples, num_vars,
                                             Val(optimal_trajectories), num_levels) :
                  LET new == FreshId({1})
                      s2 == [s1 EXCEPT ![new] = o.result]
                  IN  /\ raised' = o.raised
                      /\ IF o.raised = ""
                         THEN /\ calls' = calls \o
                                   <<c1, OptimizerCall(Ref(s1, 1), samples, num_vars,
                                           Val(optimal_trajectories), Some(Ref(s2, new)))>>
                              /\ arrays' = Collect(s2, {new})
                              /\ output_sample' = Some(new)
                              /\ pc' = "constructed"
                         ELSE /\ calls' = calls \o
                                   <<c1, OptimizerCall(Ref(s1, 1), samples, num_vars,
                                           Val(optimal_trajectories), None)>>
                              /\ arrays' = s1
                              /\ output_sample' = Some(1)
                              /\ pc' = "raised"
    /\ UNCHANGED <<args, np_seed, rd_seed, parameter_names, bounds, num_vars,
                   samples, num_levels, grid_jump, groups, optimal_trajectories,
                   gf, ret, saved, stdout>>

-----------------------------------------------------------------------------
(* The methods of a constructed sample *)

\* scaled_samples = self.output_sample.copy(); scale_samples(scaled_samples, ...)
get_input_sample_scaled(store, out, bnds, levels) ==
    LET c == np_copy(store, Val(out))
    IN  [store |-> scale_samples(c.store, c.id, bnds, levels), id |-> c.id]

\* data_to_save = self.get_input_sample_scaled(); np.savetxt(output, ...)
save_data ==
    /\ LET r == get_input_sample_scaled(Collect(arrays, {Val(output_sample)}),
                                        output_sample, bounds, num_levels)
       IN  /\ saved' = Some([data |-> Val(r.store[r.id]), delimiter |-> " ",
                             precision |-> DefaultPrecision])
           /\ arrays' = Collect(r.store, {Val(output_sample)})
    /\ ret' = NoRet
    /\ UNCHANGED <<args, np_seed, rd_seed, parameter_names, bounds, num_vars,
                   samples, num_levels, grid_jump, groups, optimal_trajectories,
                   output_sample, gf, raised, calls, stdout>>

\* sample.save_data(args.output, delimiter=..., precision=...)
Main_save_data ==
    /\ pc = "constructed"
    /\ save_data
    /\ pc' = "done"

Next ==
    \/ Main_seed_np
    \/ Main_seed_rd
    \/ Init_read_params
    \/ Init_groups
    \/ Init_check_optimal
    \/ create_sample
    \/ create_sample_with_groups
    \/ Main_save_data

Spec == Init /\ [][Next]_vars

-----------------------------------------------------------------------------
(* A constructed sample used as an object: its methods in any order *)

InitSample ==
    /\ pc = "object"
    /\ args \in {a \in ArgSets : IsNone(a.k_optimal) /\ IsNone(a.group)}
    /\ \E pf \in ParamFiles :
          /\ num_vars = pf.num_vars
          /\ bounds = pf.bounds
          /\ parameter_names = pf.names
    /\ np_seed = <<args.seed>> /\ rd_seed = <<args.seed>>
    /\ samples = args.samples /\ num_levels = args.levels
    /\ grid_jump = args.grid_jump
    /\ groups = None /\ optimal_trajectories = None
    /\ gf = <<>> /\ raised = "" /\ ret = NoRet /\ saved = None /\ stdout = <<>>
    /\ \E first \in GridRows(num_vars, num_levels) :
         LET sample == morris_oat_sample(samples, num_vars, first)
         IN  /\ arrays = [EmptyStore EXCEPT ![1] = Some(sample)]
             /\ calls = <<SamplerCall("morris_oat.sample", samples, None,
                                      num_levels, grid_jump, Ref(arrays, 1))>>
             /\ output_sample = Some(1)

Call_get_input_sample_scaled ==
    /\ pc = "object"
    /\ LET r == get_input_sample_scaled(Collect(arrays, {Val(output_sample)}),
                                        output_sample, bounds, num_levels)
       IN  /\ arrays' = r.store
           /\ ret' = [kind |-> "scaled", id |-> r.id]
    /\ UNCHANGED <<pc, args, np_seed, rd_seed, parameter_names, bounds, num_vars,
                   samples, num_levels, grid_jump, groups, optimal_trajectories,
                   output_sample, gf, raised, calls, saved, stdout>>

\* return self.output_sample
Call_get_input_sample_unscaled ==
    /\ pc = "object"
    /\ arrays' = Collect(arrays, {Val(output_sample)})
    /\ ret' = [kind |-> "unscaled", id |-> Val(output_sample)]
    /\ UNCHANGED <<pc, args, np_seed, rd_seed, parameter_names, bounds, num_vars,
                   samples, num_levels, grid_jump, groups, optimal_trajectories,
                   output_sample, gf, raised, calls, saved, stdout>>

Call_save_data ==
    /\ pc = "object"
    /\ save_data
    /\ UNCHANGED pc

debug ==
    /\ pc = "object"
    /\ stdout' = <<samples, num_levels, grid_jump, num_vars, bounds>>
                   \o (IF ~ IsNone(groups) THEN <<Val(groups)>> ELSE <<>>)
                   \o (IF ~ IsNone(optimal_trajectories)
                       THEN <<Val(optimal_trajectories)>> ELSE <<>>)
    /\ arrays' = Collect(arrays, {Val(output_sample)})
    /\ ret' = NoRet
    /\ UNCHANGED <<pc, args, np_seed, rd_seed, parameter_names, bounds, num_vars,
                   samples, num_levels, grid_jump, groups, optimal_trajectories,
                   output_sample, gf, raised, calls, saved>>

NextSample ==
    \/ Call_get_input_sample_scaled
    \/ Call_get_input_sample_unscaled
    \/ Call_save_data
    \/ debug

SpecSample == InitSample /\ [][NextSample]_vars

-----------------------------------------------------------------------------
(* compute_groups on its own: every parameter file with every group file *)

InitGroups ==
    /\ pc = "compute_groups"
    /\ args = [samples |-> 0, k_optimal |-> None, group |-> Some("groups.txt"),
               seed |-> 0, levels |-> 0, grid_jump |-> 0]
    /\ \E pf \in ParamFiles :
          /\ num_vars = pf.num_vars
          /\ bounds = pf.bounds
          /\ parameter_names = pf.names
    /\ gf \in GroupFiles
    /\ Blank

Call_compute_groups ==
    /\ pc = "compute_groups"
    /\ LET r == compute_groups(parameter_names, num_vars, gf)
       IN  /\ groups' = r.value
           /\ raised' = r.raised
           /\ stdout' = r.printed
    /\ pc' = "returned"
    /\ UNCHANGED <<args, np_seed, rd_seed, parameter_names, bounds, num_vars,
                   samples, num_levels, grid_jump, optimal_trajectories,
                   output_sample, gf, calls, arrays, ret, saved>>

NextGroups == Call_compute_groups

SpecGroups == InitGroups /\ [][NextGroups]_vars

-----------------------------------------------------------------------------
(* Properties *)

OptimalErrors == {ErrFewer, ErrTooLarge, ErrTooFew}

PreconditionErrors == OptimalErrors \cup {ErrNames}

Optimizer == "morris_optimal.find_optimum_trajectories"

\* The position is past the precondition chain of __init__.
CheckDone ==
    \/ pc \in {"init_sample", "constructed", "done"}
    \/ pc = "raised" /\ raised # ErrNames

\* C1: for a requested count m that is not None, construction is rejected by
\* the precondition chain if and only if m >= N or m > 10 or m <= 1; it gets
\* past the chain exactly when m is None or 2 <= m <= 10 and m < N.
C1_RejectedIffOutOfRange ==
    CheckDone =>
        LET m == args.k_optimal
            N == args.samples
        IN  (raised \in OptimalErrors)
              <=> (~ IsNone(m) /\ (Val(m) >= N \/ Val(m) > 10 \/ Val(m) <= 1))

C1_Witness ==
    /\ pc = "raised"
    /\ raised \in OptimalErrors
    /\ args.k_optimal = Some(args.samples)
    /\ args.samples >= 2 /\ args.samples <= 10

\* C2 as stated: whatever samples is, m > 10 is reported by the 'too large'
\* error, m <= 1 by the '2 or more' error and m >= samples by the 'fewer than
\* samples' error.
C2_Original ==
    (CheckDone /\ ~ IsNone(args.k_optimal)) =>
        LET m == Val(args.k_optimal)
            N == args.samples
        IN  /\ m > 10 => raised = ErrTooLarge
            /\ m <= 1 => raised = ErrTooFew
            /\ m >= N => raised = ErrFewer

\* C2 amended: the comparison with samples is reported first; m >= samples
\* gives the 'fewer than samples' error, and only for m < samples does m > 10
\* give the 'too large' error and m <= 1 the '2 or more' error.
C2_SamplesReportedFirst ==
    (CheckDone /\ ~ IsNone(args.k_optimal)) =>
        LET m == Val(args.k_optimal)
            N == args.samples
        IN  /\ m >= N => raised = ErrFewer
            /\ (m < N /\ m > 10) => raised = ErrTooLarge
            /\ (m < N /\ m <= 1) => raised = ErrTooFew

C2_Witness ==
    /\ pc = "raised"
    /\ raised = ErrTooLarge
    /\ args.k_optimal = Some(11)
    /\ args.samples = 12

\* C3: a precondition violation found by __init__ (optimal-trajectory count
\* out of range, group file naming an unknown parameter) is raised before any
\* sampling: no sampler or optimizer call has been made and no output sample
\* has been assigned.
C3_RaisedBeforeSampling ==
    (pc = "raised" /\ raised \in PreconditionErrors) =>
        /\ calls = <<>>
        /\ IsNone(output_sample)
        /\ arrays = EmptyStore

C3_Witness ==
    /\ pc = "raised"
    /\ raised = ErrTooFew
    /\ ~ IsNone(groups)
    /\ calls = <<>>

GroupFileGiven == args.group \notin {None, Some("")}

\* C8: in a successful construction exactly one sampler is called
\* (morris_groups.sample when a group file is given, morris_oat.sample
\* otherwise) with N = samples; the optimizer is called at most once, only
\* when optimal_trajectories is not None, after the sampler, on the sampler's
\* output with N = samples and m = optimal_trajectories; output_sample is the
\* optimizer's result when it ran and the sampler's result otherwise.
C8_PipelineOrder ==
    pc \in {"constructed", "done"} =>
        LET n == Len(calls)
        IN  /\ n = IF IsNone(args.k_optimal) THEN 1 ELSE 2
            /\ calls[1].fn = IF GroupFileGiven THEN "morris_groups.sample"
                                               ELSE "morris_oat.sample"
            /\ calls[1].N = args.samples
            /\ n = 2 =>
                 /\ calls[2].fn = Optimizer
                 /\ calls[2].input = calls[1].result
                 /\ calls[2].N = args.samples
                 /\ calls[2].k_choices = Val(args.k_optimal)
            /\ output_sample = Some(Val(calls[n].result).id)
            /\ Deref(output_sample).rows = Val(calls[n].result).rows
            /\ Deref(output_sample).cols = Val(calls[n].result).cols

C8_Witness ==
    /\ pc = "constructed"
    /\ Len(calls) = 2
    /\ calls[1].fn = "morris_groups.sample"
    /\ calls[2].fn = Optimizer

\* C9: whenever the optimizer is invoked, the dimension count it is given is
\* the k of the sample it is given (num_vars without groups, num_groups with
\* groups), so that samples * (k + 1) is the row count of the candidates.
C9_OptimizerDimensionMatches ==
    \A i \in 1..Len(calls) :
        calls[i].fn = Optimizer =>
            /\ calls[i].N * (calls[i].num_params + 1) = Val(calls[i].input).rows
            /\ calls[i].num_params =
                 IF IsNone(groups) THEN num_vars ELSE NumGroups(Val(groups))

\* C10: in the command-line entry point both generators are seeded with the
\* caller's seed, once each, before Morris is constructed and so before any
\* sampling; nothing is re-seeded; the design is saved only after construction
\* has completed.
C10_SeededOnceBeforeSampling ==
    /\ Len(np_seed) <= 1 /\ Len(rd_seed) <= 1
    /\ pc \notin {"main", "seed_rd"} =>
         np_seed = <<args.seed>> /\ rd_seed = <<args.seed>>
    /\ pc \in {"main", "seed_rd", "init"} =>
         calls = <<>> /\ num_vars = 0 /\ IsNone(output_sample)
    /\ ~ IsNone(saved) =>
         pc = "done" /\ ~ IsNone(output_sample) /\ calls # <<>>

C10_Witness ==
    /\ pc = "done"
    /\ ~ IsNone(saved)
    /\ np_seed = <<42>>

MemberNames(data) == UNION {Range(data[r][2]) : r \in 1..Len(data)}

\* C4: compute_groups raises, and returns no matrix, whenever some member name
\* of the group file is not a parameter name; when every member name is a
\* parameter name the name check does not raise.
C4_UnknownNameRaises ==
    pc = "returned" =>
        IF MemberNames(gf) \subseteq Range(parameter_names)
        THEN raised = "" /\ ~ IsNone(groups)
        ELSE raised = ErrNames /\ IsNone(groups)

C4_Witness ==
    /\ pc = "returned"
    /\ raised = ErrNames
    /\ Len(gf) = 2
    /\ Range(gf[1][2]) \subseteq Range(parameter_names)
    /\ ~ (Range(gf[2][2]) \subseteq Range(parameter_names))

Ones(row) == Cardinality({j \in 1..Len(row) : row[j] = 1})

\* C5: every matrix compute_groups returns has exactly one 1 in each row; a
\* group definition that puts a factor in no group or in several is flagged
\* as an error, not accepted.
C5_EveryRowSumsToOne ==
    (pc = "returned" /\ raised = "") =>
        \A i \in 1..num_vars : Ones(Val(groups)[i]) = 1

RECURSIVE FirstAppearance(_)
\* The distinct group names of the file, in the order they first appear.
FirstAppearance(names) ==
    IF names = <<>> THEN <<>>
    ELSE LET init == FirstAppearance(SubSeq(names, 1, Len(names) - 1))
             last == names[Len(names)]
         IN  IF last \in Range(init) THEN init ELSE Append(init, last)

GroupNamesOf(data) == [r \in 1..Len(data) |-> data[r][1]]

\* C7 as stated: the matrix has shape (num_vars, num_groups) and entry (i, j)
\* is 1 exactly when factor i is a member of the group whose position of first
\* appearance is j; a group name on several rows maps to one column.
C7_Original ==
    (pc = "returned" /\ raised = "") =>
        LET M == Val(groups)
            fa == FirstAppearance(GroupNamesOf(gf))
        IN  /\ Len(M) = num_vars
            /\ \A i \in 1..num_vars :
                 /\ Len(M[i]) = Len(fa)
                 /\ \A j \in 1..Len(fa) :
                      M[i][j] = IF \E r \in 1..Len(gf) :
                                      /\ gf[r][1] = fa[j]
                                      /\ parameter_names[i] \in Range(gf[r][2])
                                THEN 1 ELSE 0

\* C7 amended: the matrix has one column per row of the group file, and entry
\* (i, j) is 1 exactly when factor i is listed as a member on row j of the
\* file, 0 otherwise; a group name on several rows gets a column per row.
C7_ColumnPerFileRow ==
    (pc = "returned" /\ raised = "") =>
        LET M == Val(groups)
        IN  /\ Len(M) = num_vars
            /\ \A i \in 1..num_vars :
                 /\ Len(M[i]) = Len(gf)
                 /\ \A j \in 1..Len(gf) :
                      M[i][j] = IF parameter_names[i] \in Range(gf[j][2])
                                THEN 1 ELSE 0

C7_Witness ==
    /\ pc = "returned"
    /\ raised = ""
    /\ Len(gf) = 2
    /\ gf[1][1] = gf[2][1]
    /\ Len(gf[1][2]) = 2
    /\ Val(groups)[1] = <<1, 0>>

\* C6: once the sample is built, get_input_sample_scaled, save_data,
\* get_input_sample_unscaled and debug leave the stored output_sample as it
\* is: scaling works on a fresh copy, the unscaled sample handed out is the
\* stored one, and every scaled result is the scaling of that same sample.
C6_OutputSampleUntouched ==
    [][/\ output_sample' = output_sample
       /\ Val(arrays'[Val(output_sample)]) = Val(arrays[Val(output_sample)])
       /\ ret'.kind = "unscaled" =>
            Val(arrays'[ret'.id]) = Val(arrays[Val(output_sample)])
       /\ ret'.kind = "scaled" =>
            Val(arrays'[ret'.id]) =
                Scale(Val(arrays[Val(output_sample)]), bounds, num_levels)
       /\ ~ IsNone(saved') =>
            Val(saved').data =
                Scale(Val(arrays[Val(output_sample)]), bounds, num_levels)]_vars

C6_Witness ==
    /\ pc = "object"
    /\ ret.kind = "scaled"
    /\ ~ IsNone(saved)
    /\ stdout # <<>>
    /\ bounds[1] = <<1, 3>>
    /\ Val(arrays[ret.id]) # Val(arrays[Val(output_sample)])

====
